---- MODULE Spec2Model ----
(***************************************************************************)
(* Model of the calculation engine of Final_Model.py (MFAEnergySavingsTool *)
(* and the three configuration dataclasses).                               *)
(*                                                                         *)
(* Python floats are modelled as exact rationals: a number is a record     *)
(* [sg, n, d] with sign sg in {-1, 0, 1}, numerator n and denominator d.   *)
(* n and d are naturals of arbitrary size, kept as sequences of base-10^4  *)
(* limbs (least significant first), because the default site energy        *)
(* (176424575 kBtu) times the default percentages does not fit a machine   *)
(* integer.  Rounding of the binary floating point format is not           *)
(* modelled; equality of numbers is equality of value (QEq).               *)
(***************************************************************************)
EXTENDS Integers, Sequences, FiniteSets, TLC

----------------------------------------------------------------------------
(* Natural numbers of arbitrary size.                                      *)

Base == 10^4

RECURSIVE NTrim(_)
NTrim(s) ==
  IF s = <<>> THEN s
  ELSE IF s[Len(s)] = 0 THEN NTrim(SubSeq(s, 1, Len(s) - 1)) ELSE s

RECURSIVE NFromInt(_)
NFromInt(i) == IF i = 0 THEN <<>> ELSE <<i % Base>> \o NFromInt(i \div Base)

NIsSmall(a) == Len(a) <= 2

NToInt(a) ==
  IF a = <<>> THEN 0 ELSE IF Len(a) = 1 THEN a[1] ELSE a[1] + Base * a[2]

Limb(a, i) == IF i <= Len(a) THEN a[i] ELSE 0

RECURSIVE NAddFrom(_, _, _, _)
NAddFrom(a, b, i, c) ==
  IF i > Len(a) /\ i > Len(b) THEN (IF c = 0 THEN <<>> ELSE <<c>>)
  ELSE LET t == Limb(a, i) + Limb(b, i) + c
       IN  <<t % Base>> \o NAddFrom(a, b, i + 1, t \div Base)

NAdd(a, b) ==
  IF NIsSmall(a) /\ NIsSmall(b) THEN NFromInt(NToInt(a) + NToInt(b))
  ELSE NAddFrom(a, b, 1, 0)

RECURSIVE NSubFrom(_, _, _, _)
NSubFrom(a, b, i, br) ==
  IF i > Len(a) THEN <<>>
  ELSE LET t == a[i] - Limb(b, i) - br
       IN  IF t < 0 THEN <<t + Base>> \o NSubFrom(a, b, i + 1, 1)
           ELSE <<t>> \o NSubFrom(a, b, i + 1, 0)

\* a - b for a >= b
NSub(a, b) ==
  IF NIsSmall(a) THEN NFromInt(NToInt(a) - NToInt(b))
  ELSE NTrim(NSubFrom(a, b, 1, 0))

RECURSIVE NCmpAt(_, _, _)
NCmpAt(a, b, i) ==
  IF i = 0 THEN 0
  ELSE IF a[i] < b[i] THEN -1
  ELSE IF a[i] > b[i] THEN 1
  ELSE NCmpAt(a, b, i - 1)

NCmp(a, b) ==
  IF Len(a) < Len(b) THEN -1
  ELSE IF Len(a) > Len(b) THEN 1
  ELSE NCmpAt(a, b, Len(a))

RECURSIVE NMulLimb(_, _, _, _)
NMulLimb(a, k, i, c) ==
  IF i > Len(a) THEN (IF c = 0 THEN <<>> ELSE <<c>>)
  ELSE LET t == a[i] * k + c
       IN  <<t % Base>> \o NMulLimb(a, k, i + 1, t \div Base)

RECURSIVE NMulFrom(_, _, _)
NMulFrom(a, b, j) ==
  IF j > Len(b) THEN <<>>
  ELSE LET rest == NMulFrom(a, b, j + 1)
       IN  NAddFrom(NMulLimb(a, b[j], 1, 0),
                    IF rest = <<>> THEN <<>> ELSE <<0>> \o rest, 1, 0)

NMul(a, b) ==
  IF a = <<>> \/ b = <<>> THEN <<>>
  ELSE IF Len(a) = 1 /\ Len(b) = 1 THEN NFromInt(a[1] * b[1])
  ELSE NTrim(NMulFrom(a, b, 1))

\* One limb l of a long division by the integer m (0 < m < 10^8), with the
\* remainder r < m carried in from the limbs above: <<quotient limb, remainder>>.
LimbDiv(r, l, m) ==
  IF m <= 200000
  THEN LET t == r * Base + l IN <<t \div m, t % m>>
  ELSE LET t3 == r * 10 + (l \div 1000)
           t2 == (t3 % m) * 10 + ((l \div 100) % 10)
           t1 == (t2 % m) * 10 + ((l \div 10) % 10)
           t0 == (t1 % m) * 10 + (l % 10)
       IN  << (t3 \div m) * 1000 + (t2 \div m) * 100 + (t1 \div m) * 10 + (t0 \div m),
              t0 % m >>

RECURSIVE NModAt(_, _, _, _)
NModAt(a, i, r, m) ==
  IF i = 0 THEN r ELSE NModAt(a, i - 1, LimbDiv(r, a[i], m)[2], m)

NMod(a, m) == IF NIsSmall(a) THEN NToInt(a) % m ELSE NModAt(a, Len(a), 0, m)

RECURSIVE NDivAt(_, _, _, _)
NDivAt(a, i, r, m) ==
  IF i = 0 THEN <<>>
  ELSE LET qr == LimbDiv(r, a[i], m)
       IN  NDivAt(a, i - 1, qr[2], m) \o <<qr[1]>>

NDiv(a, m) ==
  IF m = 1 THEN a
  ELSE IF NIsSmall(a) THEN NFromInt(NToInt(a) \div m)
  ELSE NTrim(NDivAt(a, Len(a), 0, m))

RECURSIVE GcdInt(_, _)
GcdInt(x, y) == IF y = 0 THEN x ELSE GcdInt(y, x % y)

\* A common divisor of the non-zero naturals a and b: the greatest one when
\* one of them is below 10^8, and 1 otherwise.
NGcd(a, b) ==
  IF NIsSmall(a) THEN GcdInt(NToInt(a), NMod(b, NToInt(a)))
  ELSE IF NIsSmall(b) THEN GcdInt(NToInt(b), NMod(a, NToInt(b)))
  ELSE 1

----------------------------------------------------------------------------
(* Rational numbers.                                                       *)

QZero == [sg |-> 0, n |-> <<>>, d |-> <<1>>]

\* The rational p/q of two machine integers, q > 0.
Q(p, q) ==
  IF p = 0 THEN QZero
  ELSE LET ap == IF p < 0 THEN -p ELSE p
           g  == GcdInt(ap, q)
       IN  [sg |-> IF p < 0 THEN -1 ELSE 1,
            n  |-> NFromInt(ap \div g),
            d  |-> NFromInt(q \div g)]

QNeg(x) == [x EXCEPT !.sg = -x.sg]

\* x * y, with the common divisors g1 of x.n, y.d and g2 of y.n, x.d removed
QMulReduced(x, y, g1, g2) ==
  [sg |-> x.sg * y.sg,
   n  |-> NMul(NDiv(x.n, g1), NDiv(y.n, g2)),
   d  |-> NMul(NDiv(x.d, g2), NDiv(y.d, g1))]

QMul(x, y) ==
  IF x.sg = 0 \/ y.sg = 0 THEN QZero
  ELSE QMulReduced(x, y, NGcd(x.n, y.d), NGcd(y.n, x.d))

\* x / y for y # 0
QDiv(x, y) == QMul(x, [sg |-> y.sg, n |-> y.d, d |-> y.n])

\* s * num / d for num # 0, reduced by a common divisor of num and d.  g is
\* the common divisor the two denominators of a sum had, or 0 when they were
\* the same denominator d.
QOver(s, num, d, g) ==
  [sg |-> s,
   n  |-> NDiv(num, IF g = 0 THEN NGcd(num, d)
                    ELSE IF g = 1 THEN 1 ELSE GcdInt(g, NMod(num, g))),
   d  |-> NDiv(d, IF g = 0 THEN NGcd(num, d)
                  ELSE IF g = 1 THEN 1 ELSE GcdInt(g, NMod(num, g)))]

\* sx * a / d + sy * b / d for non-zero a and b, where c compares a with b
QSum(sx, a, sy, b, d, g, c) ==
  IF sx # sy /\ c = 0 THEN QZero
  ELSE QOver(IF sx = sy \/ c > 0 THEN sx ELSE sy,
             IF sx = sy THEN NAdd(a, b)
             ELSE IF c > 0 THEN NSub(a, b) ELSE NSub(b, a),
             d, g)

\* x + y on the common denominator xd * y.d, where xd = x.d / g and
\* yd = y.d / g
QAddScaled(x, y, xd, yd, g) ==
  QSum(x.sg, NMul(x.n, yd), y.sg, NMul(y.n, xd), NMul(xd, y.d), g,
       NCmp(NMul(x.n, yd), NMul(y.n, xd)))

\* x + y, where g is a common divisor of the two denominators
QAddSplit(x, y, g) == QAddScaled(x, y, NDiv(x.d, g), NDiv(y.d, g), g)

QAdd(x, y) ==
  IF x.sg = 0 THEN y
  ELSE IF y.sg = 0 THEN x
  ELSE IF x.d = y.d THEN QSum(x.sg, x.n, y.sg, y.n, x.d, 0, NCmp(x.n, y.n))
  ELSE QAddSplit(x, y, NGcd(x.d, y.d))

QSub(x, y) == QAdd(x, QNeg(y))

\* -1, 0 or 1 as x is below, equal to or above y
QCmp(x, y) ==
  IF x.sg # y.sg THEN (IF x.sg < y.sg THEN -1 ELSE 1)
  ELSE IF x.sg = 0 THEN 0
  ELSE IF x.d = y.d THEN x.sg * NCmp(x.n, y.n)
  ELSE x.sg * NCmp(NMul(x.n, y.d), NMul(y.n, x.d))

QEq(x, y) == QCmp(x, y) = 0
QLeq(x, y) == QCmp(x, y) <= 0
QLt(x, y) == QCmp(x, y) < 0
QAbs(x) == [x EXCEPT !.sg = IF x.sg = 0 THEN 0 ELSE 1]

\* Python's max(x, y) and min(x, y): the first argument unless the second
\* is strictly greater (smaller).
QMax(x, y) == IF QLt(x, y) THEN y ELSE x
QMin(x, y) == IF QLt(y, x) THEN y ELSE x

\* float('inf')
QInf == [sg |-> 1, n |-> <<1>>, d |-> <<>>]
IsInf(x) == x.d = <<>>

----------------------------------------------------------------------------
(* The configuration dataclasses and their default values.                 *)

BuildingConfig ==
  [total_area                     |-> Q(630800, 1),
   exhibition_percent             |-> Q(49, 100),
   old_building_percent           |-> Q(78, 100),
   new_building_percent           |-> Q(22, 100),
   total_site_energy              |-> Q(176424575, 1),
   eui                            |-> Q(2797, 10),
   hvac_percent                   |-> Q(85, 100),
   lighting_percent               |-> Q(5, 100),
   other_percent                  |-> Q(10, 100),
   current_led_percentage         |-> Q(70, 100),
   new_building_efficiency_factor |-> Q(85, 100),
   fan_percent_of_hvac            |-> Q(25, 100)]

InterventionConfig ==
  [hvac_rightsizing_factor |-> Q(30, 100),
   humidity_control_factor |-> Q(10, 100),
   vfd_factor              |-> Q(40, 100),
   led_conversion_factor   |-> Q(70, 100),
   window_upgrade_factor   |-> Q(10, 100)]

CostFactors ==
  [elec_rate       |-> Q(305, 1000),
   gas_rate        |-> Q(251, 100),
   kbtu_to_kwh     |-> Q(3412, 1000),
   kbtu_to_therm   |-> Q(100, 1),
   co2_factor_elec |-> Q(2628, 10000000),
   co2_factor_gas  |-> Q(1812, 10000000)]

\* The five measure keys, in the order of the savings dictionary.
MeasureOrder ==
  <<"hvac_rightsizing", "humidity_control", "vfd", "led_conversion", "window_upgrades">>

Measures == {MeasureOrder[i] : i \in 1..Len(MeasureOrder)}

----------------------------------------------------------------------------
(* MFAEnergySavingsTool: construction.                                     *)

\* Mutant of DerivedAreas: the zone areas taken from the total area.
DerivedAreas_of_total(config) ==
  LET ZoneAreas(exhibition_area) ==
        [exhibition_area   |-> exhibition_area,
         old_building_area |-> QMul(config.total_area, config.old_building_percent),
         new_building_area |-> QMul(config.total_area, config.new_building_percent)]
  IN  ZoneAreas(QMul(config.total_area, config.exhibition_percent))

\* __init__, the derived areas
DerivedAreas(config) ==
  LET ZoneAreas(exhibition_area) ==
        [exhibition_area   |-> exhibition_area,
         old_building_area |-> QMul(exhibition_area, config.old_building_percent),
         new_building_area |-> QMul(exhibition_area, config.new_building_percent)]
  IN  ZoneAreas(QMul(config.total_area, config.exhibition_percent))

\* calculate_energy_allocation: old area plus discounted new area
total_effective_area(config, a) ==
  QAdd(a.old_building_area,
       QMul(a.new_building_area, config.new_building_efficiency_factor))

\* Mutant of calculate_energy_allocation: the new zone's share taken from its
\* undiscounted area.
calculate_energy_allocation_raw_new(config, a) ==
  LET Shares(exhibition_energy, effective_old_area, effective_new_area, total) ==
        [exhibition_energy   |-> exhibition_energy,
         old_building_energy |->
           QMul(exhibition_energy, QDiv(effective_old_area, total)),
         new_building_energy |->
           QMul(exhibition_energy, QDiv(a.new_building_area, total))]
      Areas(effective_old_area, effective_new_area) ==
        Shares(QMul(config.total_site_energy, config.exhibition_percent),
               effective_old_area, effective_new_area,
               QAdd(effective_old_area, effective_new_area))
  IN  Areas(a.old_building_area,
            QMul(a.new_building_area, config.new_building_efficiency_factor))

\* calculate_energy_allocation, for total_effective_area # 0
calculate_energy_allocation(config, a) ==
  LET Shares(exhibition_energy, effective_old_area, effective_new_area, total) ==
        [exhibition_energy   |-> exhibition_energy,
         old_building_energy |->
           QMul(exhibition_energy, QDiv(effective_old_area, total)),
         new_building_energy |->
           QMul(exhibition_energy, QDiv(effective_new_area, total))]
      Areas(effective_old_area, effective_new_area) ==
        Shares(QMul(config.total_site_energy, config.exhibition_percent),
               effective_old_area, effective_new_area,
               QAdd(effective_old_area, effective_new_area))
  IN  Areas(a.old_building_area,
            QMul(a.new_building_area, config.new_building_efficiency_factor))

calculate_end_use_breakdown(config, e) ==
  LET Totals(old_building_hvac, old_building_lighting, old_building_other,
             old_building_fan, new_building_hvac, new_building_lighting,
             new_building_other, new_building_fan) ==
        [old_building_hvac     |-> old_building_hvac,
         old_building_lighting |-> old_building_lighting,
         old_building_other    |-> old_building_other,
         old_building_fan      |-> old_building_fan,
         new_building_hvac     |-> new_building_hvac,
         new_building_lighting |-> new_building_lighting,
         new_building_other    |-> new_building_other,
         new_building_fan      |-> new_building_fan,
         total_hvac            |-> QAdd(old_building_hvac, new_building_hvac),
         total_lighting        |-> QAdd(old_building_lighting, new_building_lighting),
         total_other           |-> QAdd(old_building_other, new_building_other),
         total_fan             |-> QAdd(old_building_fan, new_building_fan)]
      Fans(old_building_hvac, new_building_hvac) ==
        Totals(old_building_hvac,
               QMul(e.old_building_energy, config.lighting_percent),
               QMul(e.old_building_energy, config.other_percent),
               QMul(old_building_hvac, config.fan_percent_of_hvac),
               new_building_hvac,
               QMul(e.new_building_energy, config.lighting_percent),
               QMul(e.new_building_energy, config.other_percent),
               QMul(new_building_hvac, config.fan_percent_of_hvac))
  IN  Fans(QMul(e.old_building_energy, config.hvac_percent),
           QMul(e.new_building_energy, config.hvac_percent))

\* The division of calculate_energy_allocation raises ZeroDivisionError.
InitRaises(config) ==
  QEq(total_effective_area(config, DerivedAreas(config)), QZero)

\* The object __init__ leaves behind when nothing raises.
NewTool(config, interventions_config) ==
  LET WithEnergy(a, e) ==
        [config |-> config, interventions_config |-> interventions_config]
          @@ a @@ e @@ calculate_end_use_breakdown(config, e)
      WithAreas(a) == WithEnergy(a, calculate_energy_allocation(config, a))
  IN  WithAreas(DerivedAreas(config))

\* The attributes of an object on which __init__ has not run.
NoTool ==
  [config |-> BuildingConfig, interventions_config |-> InterventionConfig]
    @@ [f \in {"exhibition_area", "old_building_area", "new_building_area",
               "exhibition_energy", "old_building_energy", "new_building_energy",
               "old_building_hvac", "old_building_lighting", "old_building_other",
               "old_building_fan", "new_building_hvac", "new_building_lighting",
               "new_building_other", "new_building_fan", "total_hvac",
               "total_lighting", "total_other", "total_fan"} |-> QZero]

----------------------------------------------------------------------------
(* MFAEnergySavingsTool: the three reports.                                *)

\* Mutant of calculate_baseline: the EUI ratio taken as old over new.
calculate_baseline_old_over_new(self) ==
  LET Report(effective_new_area, old_building_eui, new_building_eui) ==
        [k \in {"Total Area (sq ft)"} |-> self.config.total_area]
        @@ [k \in {"Exhibition Area (sq ft)"} |-> self.exhibition_area]
        @@ [k \in {"Old Building Exhibition Area (sq ft)"} |-> self.old_building_area]
        @@ [k \in {"New Building Exhibition Area (sq ft)"} |-> self.new_building_area]
        @@ [k \in {"Total Energy (kBtu/year)"} |-> self.config.total_site_energy]
        @@ [k \in {"Exhibition Energy (kBtu/year)"} |-> self.exhibition_energy]
        @@ [k \in {"Old Building Energy (kBtu/year)"} |-> self.old_building_energy]
        @@ [k \in {"New Building Energy (kBtu/year)"} |-> self.new_building_energy]
        @@ [k \in {"EUI (kBtu/sq ft/year)"} |-> self.config.eui]
        @@ [k \in {"New Building Efficiency Factor"} |->
              self.config.new_building_efficiency_factor]
        @@ [k \in {"Effective New Building Area (sq ft)"} |-> effective_new_area]
        @@ [k \in {"Old Building EUI (kBtu/sq ft/year)"} |-> old_building_eui]
        @@ [k \in {"New Building EUI (kBtu/sq ft/year)"} |-> new_building_eui]
        @@ [k \in {"EUI Ratio (New/Old)"} |->
              IF QLt(QZero, old_building_eui)
              THEN QDiv(old_building_eui, new_building_eui) ELSE QZero]
  IN  Report(QMul(self.new_building_area, self.config.new_building_efficiency_factor),
             IF QLt(QZero, self.old_building_area)
             THEN QDiv(self.old_building_energy, self.old_building_area)
             ELSE QZero,
             IF QLt(QZero, self.new_building_area)
             THEN QDiv(self.new_building_energy, self.new_building_area)
             ELSE QZero)

calculate_baseline(self) ==
  LET Report(effective_new_area, old_building_eui, new_building_eui) ==
        [k \in {"Total Area (sq ft)"} |-> self.config.total_area]
        @@ [k \in {"Exhibition Area (sq ft)"} |-> self.exhibition_area]
        @@ [k \in {"Old Building Exhibition Area (sq ft)"} |-> self.old_building_area]
        @@ [k \in {"New Building Exhibition Area (sq ft)"} |-> self.new_building_area]
        @@ [k \in {"Total Energy (kBtu/year)"} |-> self.config.total_site_energy]
        @@ [k \in {"Exhibition Energy (kBtu/year)"} |-> self.exhibition_energy]
        @@ [k \in {"Old Building Energy (kBtu/year)"} |-> self.old_building_energy]
        @@ [k \in {"New Building Energy (kBtu/year)"} |-> self.new_building_energy]
        @@ [k \in {"EUI (kBtu/sq ft/year)"} |-> self.config.eui]
        @@ [k \in {"New Building Efficiency Factor"} |->
              self.config.new_building_efficiency_factor]
        @@ [k \in {"Effective New Building Area (sq ft)"} |-> effective_new_area]
        @@ [k \in {"Old Building EUI (kBtu/sq ft/year)"} |-> old_building_eui]
        @@ [k \in {"New Building EUI (kBtu/sq ft/year)"} |-> new_building_eui]
        @@ [k \in {"EUI Ratio (New/Old)"} |->
              IF QLt(QZero, old_building_eui)
              THEN QDiv(new_building_eui, old_building_eui) ELSE QZero]
  IN  Report(QMul(self.new_building_area, self.config.new_building_efficiency_factor),
             IF QLt(QZero, self.old_building_area)
             THEN QDiv(self.old_building_energy, self.old_building_area)
             ELSE QZero,
             IF QLt(QZero, self.new_building_area)
             THEN QDiv(self.new_building_energy, self.new_building_area)
             ELSE QZero)

\* interventions[measure].get(zone, 0) / 100.0
Impl(interventions, measure, zone) == Q(interventions[measure][zone], 100)

_calculate_hvac_rightsizing_savings(self, interventions) ==
  IF "hvac_rightsizing" \notin DOMAIN interventions THEN QZero
  ELSE LET old_impl == Impl(interventions, "hvac_rightsizing", "old")
           new_impl == Impl(interventions, "hvac_rightsizing", "new")
           factor   == self.interventions_config.hvac_rightsizing_factor
       IN  QAdd(QMul(QMul(self.old_building_hvac, factor), old_impl),
                QMul(QMul(self.new_building_hvac, factor), new_impl))

\* Mutant of _calculate_humidity_control_savings: the sign of the result
\* reversed (energy added instead of saved).
_calculate_humidity_control_savings_negated(self, interventions) ==
  IF "humidity_control" \notin DOMAIN interventions THEN QZero
  ELSE LET old_impl == Impl(interventions, "humidity_control", "old")
           new_impl == Impl(interventions, "humidity_control", "new")
           factor   == self.interventions_config.humidity_control_factor
       IN  QNeg(QAdd(QMul(QMul(self.old_building_hvac, factor), old_impl),
                     QMul(QMul(self.new_building_hvac, factor), new_impl)))

_calculate_humidity_control_savings(self, interventions) ==
  IF "humidity_control" \notin DOMAIN interventions THEN QZero
  ELSE LET old_impl == Impl(interventions, "humidity_control", "old")
           new_impl == Impl(interventions, "humidity_control", "new")
           factor   == self.interventions_config.humidity_control_factor
       IN  QAdd(QMul(QMul(self.old_building_hvac, factor), old_impl),
                QMul(QMul(self.new_building_hvac, factor), new_impl))

_calculate_vfd_savings(self, interventions) ==
  IF "vfd" \notin DOMAIN interventions THEN QZero
  ELSE LET old_impl == Impl(interventions, "vfd", "old")
           new_impl == Impl(interventions, "vfd", "new")
           factor   == self.interventions_config.vfd_factor
       IN  QAdd(QMul(QMul(self.old_building_fan, factor), old_impl),
                QMul(QMul(self.new_building_fan, factor), new_impl))

\* Mutant of _calculate_led_conversion_savings: abs(.) in place of max(0, .).
_calculate_led_conversion_savings_abs(self, interventions) ==
  IF "led_conversion" \notin DOMAIN interventions THEN QZero
  ELSE LET old_impl == Impl(interventions, "led_conversion", "old")
           new_impl == Impl(interventions, "led_conversion", "new")
           factor   == self.interventions_config.led_conversion_factor
           old_effective_impl ==
             QAbs(QSub(old_impl, self.config.current_led_percentage))
           new_effective_impl ==
             QAbs(QSub(new_impl, self.config.current_led_percentage))
       IN  QAdd(QMul(QMul(self.old_building_lighting, factor), old_effective_impl),
                QMul(QMul(self.new_building_lighting, factor), new_effective_impl))

\* Mutant of _calculate_led_conversion_savings: the clamp max(0, .) left out.
_calculate_led_conversion_savings_unclamped(self, interventions) ==
  IF "led_conversion" \notin DOMAIN interventions THEN QZero
  ELSE LET old_impl == Impl(interventions, "led_conversion", "old")
           new_impl == Impl(interventions, "led_conversion", "new")
           factor   == self.interventions_config.led_conversion_factor
           old_effective_impl == QSub(old_impl, self.config.current_led_percentage)
           new_effective_impl == QSub(new_impl, self.config.current_led_percentage)
       IN  QAdd(QMul(QMul(self.old_building_lighting, factor), old_effective_impl),
                QMul(QMul(self.new_building_lighting, factor), new_effective_impl))

_calculate_led_conversion_savings(self, interventions) ==
  IF "led_conversion" \notin DOMAIN interventions THEN QZero
  ELSE LET old_impl == Impl(interventions, "led_conversion", "old")
           new_impl == Impl(interventions, "led_conversion", "new")
           factor   == self.interventions_config.led_conversion_factor
           old_effective_impl ==
             QMax(QZero, QSub(old_impl, self.config.current_led_percentage))
           new_effective_impl ==
             QMax(QZero, QSub(new_impl, self.config.current_led_percentage))
       IN  QAdd(QMul(QMul(self.old_building_lighting, factor), old_effective_impl),
                QMul(QMul(self.new_building_lighting, factor), new_effective_impl))

\* Mutant of _calculate_window_upgrade_savings: the new zone's term subtracted.
_calculate_window_upgrade_savings_minus(self, interventions) ==
  IF "window_upgrades" \notin DOMAIN interventions THEN QZero
  ELSE LET old_impl == Impl(interventions, "window_upgrades", "old")
           new_impl == Impl(interventions, "window_upgrades", "new")
           factor   == self.interventions_config.window_upgrade_factor
       IN  QSub(QMul(QMul(self.old_building_hvac, factor), old_impl),
                QMul(QMul(self.new_building_hvac, factor), new_impl))

_calculate_window_upgrade_savings(self, interventions) ==
  IF "window_upgrades" \notin DOMAIN interventions THEN QZero
  ELSE LET old_impl == Impl(interventions, "window_upgrades", "old")
           new_impl == Impl(interventions, "window_upgrades", "new")
           factor   == self.interventions_config.window_upgrade_factor
       IN  QAdd(QMul(QMul(self.old_building_hvac, factor), old_impl),
                QMul(QMul(self.new_building_hvac, factor), new_impl))

\* The savings dictionary of calculate_savings.
IndividualSavings(self, interventions) ==
  [k \in {"hvac_rightsizing"} |-> _calculate_hvac_rightsizing_savings(self, interventions)]
  @@ [k \in {"humidity_control"} |-> _calculate_humidity_control_savings(self, interventions)]
  @@ [k \in {"vfd"} |-> _calculate_vfd_savings(self, interventions)]
  @@ [k \in {"led_conversion"} |-> _calculate_led_conversion_savings(self, interventions)]
  @@ [k \in {"window_upgrades"} |-> _calculate_window_upgrade_savings(self, interventions)]

\* Mutant of CappedHvacSavings: max in place of min.
CappedHvacSavings_max(self, savings) ==
  LET hvac_savings ==
        QAdd(QAdd(QAdd(savings["hvac_rightsizing"], savings["humidity_control"]),
                  savings["vfd"]),
             savings["window_upgrades"])
  IN  QMax(hvac_savings, QMul(Q(95, 100), self.total_hvac))

\* Mutant of CappedHvacSavings: the cap left out.
CappedHvacSavings_uncapped(self, savings) ==
  QAdd(QAdd(QAdd(savings["hvac_rightsizing"], savings["humidity_control"]),
            savings["vfd"]),
       savings["window_upgrades"])

\* The four HVAC-adjacent savings summed, then capped at 95% of total HVAC.
CappedHvacSavings(self, savings) ==
  LET hvac_savings ==
        QAdd(QAdd(QAdd(savings["hvac_rightsizing"], savings["humidity_control"]),
                  savings["vfd"]),
             savings["window_upgrades"])
  IN  QMin(hvac_savings, QMul(Q(95, 100), self.total_hvac))

\* The divisions of calculate_savings raise ZeroDivisionError.
SavingsRaises(self) ==
  \/ QEq(self.config.total_area, QZero)
  \/ QEq(self.config.total_site_energy, QZero)

\* calculate_savings, when no division raises
calculate_savings(self, interventions) ==
  LET Report(savings, total_savings, new_energy_use) ==
        [k \in {"Individual Savings (kBtu/year)"} |-> savings]
        @@ [k \in {"Total Savings (kBtu/year)"} |-> total_savings]
        @@ [k \in {"New Energy Use (kBtu/year)"} |-> new_energy_use]
        @@ [k \in {"New EUI (kBtu/sq ft/year)"} |->
              QDiv(new_energy_use, self.config.total_area)]
        @@ [k \in {"Percent Savings"} |->
              QMul(QDiv(total_savings, self.config.total_site_energy), Q(100, 1))]
        @@ [k \in {"Baseline EUI (kBtu/sq ft/year)"} |-> self.config.eui]
      Metrics(savings, total_savings) ==
        Report(savings, total_savings,
               QSub(self.config.total_site_energy, total_savings))
      Totals(savings, hvac_savings, lighting_savings) ==
        Metrics(savings, QAdd(hvac_savings, lighting_savings))
      Capped(savings) ==
        Totals(savings, CappedHvacSavings(self, savings), savings["led_conversion"])
  IN  Capped(IndividualSavings(self, interventions))

\* The per-square-foot implementation costs of estimate_costs_and_payback.
implementation_costs ==
  [k \in {"hvac_rightsizing"} |-> [old |-> Q(1500, 100), new |-> Q(1000, 100)]]
  @@ [k \in {"humidity_control"} |-> [old |-> Q(500, 100), new |-> Q(300, 100)]]
  @@ [k \in {"vfd"} |-> [old |-> Q(200, 100), new |-> Q(150, 100)]]
  @@ [k \in {"led_conversion"} |-> [old |-> Q(800, 100), new |-> Q(800, 100)]]
  @@ [k \in {"window_upgrades"} |-> [old |-> Q(2500, 100), new |-> Q(1000, 100)]]

\* Mutant of elec_gas_split: the window upgrade's shares do not add up to 1.
elec_gas_split_short ==
  [k \in {"hvac_rightsizing"} |-> [elec |-> Q(40, 100), gas |-> Q(60, 100)]]
  @@ [k \in {"humidity_control"} |-> [elec |-> Q(30, 100), gas |-> Q(70, 100)]]
  @@ [k \in {"vfd"} |-> [elec |-> Q(1, 1), gas |-> Q(0, 1)]]
  @@ [k \in {"led_conversion"} |-> [elec |-> Q(1, 1), gas |-> Q(0, 1)]]
  @@ [k \in {"window_upgrades"} |-> [elec |-> Q(25, 100), gas |-> Q(70, 100)]]

\* The electricity/gas split of each measure's savings.
elec_gas_split ==
  [k \in {"hvac_rightsizing"} |-> [elec |-> Q(40, 100), gas |-> Q(60, 100)]]
  @@ [k \in {"humidity_control"} |-> [elec |-> Q(30, 100), gas |-> Q(70, 100)]]
  @@ [k \in {"vfd"} |-> [elec |-> Q(1, 1), gas |-> Q(0, 1)]]
  @@ [k \in {"led_conversion"} |-> [elec |-> Q(1, 1), gas |-> Q(0, 1)]]
  @@ [k \in {"window_upgrades"} |-> [elec |-> Q(25, 100), gas |-> Q(75, 100)]]

\* The loop over the individual savings: the kBtu saved from one energy
\* source ("elec" or "gas") by the first i measures.
RECURSIVE SourceSavingsKbtu(_, _, _)
SourceSavingsKbtu(savings, source, i) ==
  IF i = 0 THEN QZero
  ELSE LET measure == MeasureOrder[i]
           before  == SourceSavingsKbtu(savings, source, i - 1)
       IN  IF measure \in DOMAIN elec_gas_split
           THEN QAdd(before, QMul(savings[measure], elec_gas_split[measure][source]))
           ELSE before

\* The loop over implementation_costs: the cost of the first i measures.
RECURSIVE ImplementationCost(_, _, _)
ImplementationCost(self, interventions, i) ==
  IF i = 0 THEN QZero
  ELSE LET measure == MeasureOrder[i]
           details == implementation_costs[measure]
           before  == ImplementationCost(self, interventions, i - 1)
       IN  IF measure \in DOMAIN interventions
           THEN LET old_impl == Impl(interventions, measure, "old")
                    new_impl == Impl(interventions, measure, "new")
                IN  QAdd(before,
                         QAdd(QMul(QMul(self.old_building_area, details.old), old_impl),
                              QMul(QMul(self.new_building_area, details.new), new_impl)))
           ELSE before

\* The unit conversions of estimate_costs_and_payback raise ZeroDivisionError.
CostsRaise(cost_factors) ==
  \/ QEq(cost_factors.kbtu_to_kwh, QZero)
  \/ QEq(cost_factors.kbtu_to_therm, QZero)

\* Mutant of simple_payback: the guard tests for non-zero, not for positive.
simple_payback_nonzero(total_cost, annual_cost_savings) ==
  IF ~QEq(annual_cost_savings, QZero)
  THEN QDiv(total_cost, annual_cost_savings)
  ELSE QInf

\* Simple payback: float('inf') unless the annual cost savings are positive.
simple_payback(total_cost, annual_cost_savings) ==
  IF QLt(QZero, annual_cost_savings)
  THEN QDiv(total_cost, annual_cost_savings)
  ELSE QInf

\* estimate_costs_and_payback, when no division raises
estimate_costs_and_payback(self, interventions, savings_results, cost_factors) ==
  LET Report(electricity_cost_savings, gas_cost_savings, annual_cost_savings,
             co2_reduction_elec, co2_reduction_gas, total_cost) ==
        [k \in {"Annual Cost Savings ($)"} |-> annual_cost_savings]
        @@ [k \in {"Electricity Savings ($/year)"} |-> electricity_cost_savings]
        @@ [k \in {"Natural Gas Savings ($/year)"} |-> gas_cost_savings]
        @@ [k \in {"Implementation Cost Estimate ($)"} |-> total_cost]
        @@ [k \in {"Simple Payback (years)"} |->
              simple_payback(total_cost, annual_cost_savings)]
        @@ [k \in {"CO2 Reduction (metric tons/year)"} |->
              QAdd(co2_reduction_elec, co2_reduction_gas)]
        @@ [k \in {"Electricity CO2 Reduction (metric tons/year)"} |->
              co2_reduction_elec]
        @@ [k \in {"Natural Gas CO2 Reduction (metric tons/year)"} |->
              co2_reduction_gas]
      Costs(electricity_cost_savings, gas_cost_savings,
            co2_reduction_elec, co2_reduction_gas) ==
        Report(electricity_cost_savings, gas_cost_savings,
               QAdd(electricity_cost_savings, gas_cost_savings),
               co2_reduction_elec, co2_reduction_gas,
               ImplementationCost(self, interventions, Len(MeasureOrder)))
      Converted(electricity_savings_kwh, gas_savings_therm) ==
        Costs(QMul(electricity_savings_kwh, cost_factors.elec_rate),
              QMul(gas_savings_therm, cost_factors.gas_rate),
              QMul(electricity_savings_kwh, cost_factors.co2_factor_elec),
              QMul(gas_savings_therm, cost_factors.co2_factor_gas))
      Split(electricity_savings_kbtu, gas_savings_kbtu) ==
        Converted(QDiv(electricity_savings_kbtu, cost_factors.kbtu_to_kwh),
                  QDiv(gas_savings_kbtu, cost_factors.kbtu_to_therm))
      Loop(savings) ==
        Split(SourceSavingsKbtu(savings, "elec", Len(MeasureOrder)),
              SourceSavingsKbtu(savings, "gas", Len(MeasureOrder)))
  IN  Loop(savings_results["Individual Savings (kBtu/year)"])

----------------------------------------------------------------------------
(* The inputs the engine is exercised with.                                *)

\* Largest number of measures a selection holds at once.
MaxSelected == 2

\* The slider positions a measure is exercised at: none and all of a zone,
\* and for the LED conversion also the position that equals the default
\* current_led_percentage, below which the clamp of the LED savings acts.
AdoptionValues(measure) ==
  IF measure = "led_conversion" THEN {0, 70, 100} ELSE {0, 100}

\* A small building: 1000 sq ft, half of it exhibition space, three quarters
\* of that in the old building.
SmallBuilding ==
  [BuildingConfig EXCEPT !.total_area = Q(1000, 1),
                         !.exhibition_percent = Q(1, 2),
                         !.old_building_percent = Q(3, 4),
                         !.new_building_percent = Q(1, 4),
                         !.total_site_energy = Q(28000, 1),
                         !.eui = Q(28, 1),
                         !.new_building_efficiency_factor = Q(1, 2)]

\* Measures that remove all of their target end use.
FullEffect ==
  [InterventionConfig EXCEPT !.hvac_rightsizing_factor = Q(1, 1),
                             !.vfd_factor = Q(1, 1),
                             !.led_conversion_factor = Q(1, 1)]

\* A humidity control that costs energy instead of saving it.
Counterproductive ==
  [InterventionConfig EXCEPT !.hvac_rightsizing_factor = Q(0, 1),
                             !.humidity_control_factor = Q(-10, 100)]

\* The (config, interventions_config) pairs an engine is constructed from.
ToolArgs ==
  { <<BuildingConfig, InterventionConfig>>,
    <<SmallBuilding, InterventionConfig>>,
    <<SmallBuilding, FullEffect>>,
    <<SmallBuilding, Counterproductive>>,
    <<[SmallBuilding EXCEPT !.old_building_percent = Q(0, 1),
                            !.new_building_percent = Q(1, 1)], InterventionConfig>>,
    <<[SmallBuilding EXCEPT !.old_building_percent = Q(1, 1),
                            !.new_building_percent = Q(0, 1)], InterventionConfig>>,
    <<[SmallBuilding EXCEPT !.exhibition_percent = Q(0, 1)], InterventionConfig>>,
    <<[SmallBuilding EXCEPT !.total_area = Q(0, 1)], InterventionConfig>>,
    <<[SmallBuilding EXCEPT !.total_site_energy = Q(0, 1)], InterventionConfig>>,
    <<[SmallBuilding EXCEPT !.total_site_energy = Q(-28000, 1)], InterventionConfig>>,
    <<[SmallBuilding EXCEPT !.new_building_efficiency_factor = Q(-4, 1)],
      InterventionConfig>> }

\* The selections of at most max measures one change of a checkbox or slider
\* away from a selection: a measure added with both sliders at 0, a measure
\* removed, or one zone's slider of a selected measure moved; and the
\* selection itself.
EditsUpTo(interventions, max) ==
  {interventions}
  \cup { [k \in {m} |-> [old |-> 0, new |-> 0]] @@ interventions :
           m \in {x \in Measures \ DOMAIN interventions :
                    Cardinality(DOMAIN interventions) < max} }
  \cup { [k \in DOMAIN interventions \ {m} |-> interventions[k]] :
           m \in DOMAIN interventions }
  \cup UNION { { [interventions EXCEPT ![m].old = a] : a \in AdoptionValues(m) } :
                 m \in DOMAIN interventions }
  \cup UNION { { [interventions EXCEPT ![m].new = a] : a \in AdoptionValues(m) } :
                 m \in DOMAIN interventions }

\* The edits that keep at most MaxSelected checkboxes ticked.
Edits(interventions) == EditsUpTo(interventions, MaxSelected)

----------------------------------------------------------------------------
(* The engine in use, as create_streamlit_app uses it: one object is       *)
(* constructed, its baseline is reported, and then every change of the      *)
(* selection is followed by calculate_savings and, on its result, by        *)
(* estimate_costs_and_payback.  An uncaught ZeroDivisionError ends the run. *)

VARIABLES
  pc,                    \* "start", "constructed", "ready" or "raised"
  raised_in,             \* the method whose division raised, or ""
  building_config,       \* the BuildingConfig passed to the constructor
  interventions_config,  \* the InterventionConfig passed to the constructor
  mfa_tool,              \* the MFAEnergySavingsTool object
  interventions,         \* the selection of the latest calculate_savings call
  baseline_data,         \* <<report>> of the latest calculate_baseline, or <<>>
  savings_results,       \* <<report>> of the latest calculate_savings, or <<>>
  financial_results      \* <<report>> of estimate_costs_and_payback for
                         \* savings_results, or <<>>

vars == <<pc, raised_in, building_config, interventions_config, mfa_tool,
          interventions, baseline_data, savings_results, financial_results>>

Init ==
  /\ pc = "start"
  /\ raised_in = ""
  /\ \E args \in ToolArgs :
       /\ building_config = args[1]
       /\ interventions_config = args[2]
  /\ mfa_tool = NoTool
  /\ interventions = <<>>
  /\ baseline_data = <<>>
  /\ savings_results = <<>>
  /\ financial_results = <<>>

\* mfa_tool = MFAEnergySavingsTool(building_config, interventions_config)
Construct ==
  /\ pc = "start"
  /\ IF InitRaises(building_config)
     THEN /\ pc' = "raised"
          /\ raised_in' = "calculate_energy_allocation"
          /\ UNCHANGED mfa_tool
     ELSE /\ pc' = "constructed"
          /\ mfa_tool' = NewTool(building_config, interventions_config)
          /\ UNCHANGED raised_in
  /\ UNCHANGED <<building_config, interventions_config, interventions,
                 baseline_data, savings_results, financial_results>>

\* baseline_data = mfa_tool.calculate_baseline()
CallCalculateBaseline ==
  /\ pc \in {"constructed", "ready"}
  /\ pc' = "ready"
  /\ baseline_data' = <<calculate_baseline(mfa_tool)>>
  /\ UNCHANGED <<raised_in, building_config, interventions_config, mfa_tool,
                 interventions, savings_results, financial_results>>

\* Mutant of CallCalculateSavings: calculate_savings also takes the capped
\* HVAC savings off the engine's total HVAC energy.
CallCalculateSavings_writes_back(selection) ==
  /\ pc = "ready"
  /\ interventions' = selection
  /\ financial_results' = <<>>
  /\ IF SavingsRaises(mfa_tool)
     THEN /\ pc' = "raised"
          /\ raised_in' = "calculate_savings"
          /\ savings_results' = <<>>
          /\ UNCHANGED mfa_tool
     ELSE /\ savings_results' = <<calculate_savings(mfa_tool, selection)>>
          /\ mfa_tool' =
               [mfa_tool EXCEPT !.total_hvac =
                  QSub(@, CappedHvacSavings(mfa_tool,
                                            IndividualSavings(mfa_tool, selection)))]
          /\ UNCHANGED <<pc, raised_in>>
  /\ UNCHANGED <<building_config, interventions_config, baseline_data>>

\* savings_results = mfa_tool.calculate_savings(selection)
CallCalculateSavings(selection) ==
  /\ pc = "ready"
  /\ interventions' = selection
  /\ financial_results' = <<>>
  /\ IF SavingsRaises(mfa_tool)
     THEN /\ pc' = "raised"
          /\ raised_in' = "calculate_savings"
          /\ savings_results' = <<>>
     ELSE /\ savings_results' = <<calculate_savings(mfa_tool, selection)>>
          /\ UNCHANGED <<pc, raised_in>>
  /\ UNCHANGED <<building_config, interventions_config, mfa_tool, baseline_data>>

\* financial_results = mfa_tool.estimate_costs_and_payback(
\*     interventions, savings_results, cost_factors)
CallEstimateCostsAndPayback(cost_factors) ==
  /\ pc = "ready"
  /\ savings_results # <<>>
  /\ IF CostsRaise(cost_factors)
     THEN /\ pc' = "raised"
          /\ raised_in' = "estimate_costs_and_payback"
          /\ financial_results' = <<>>
     ELSE /\ financial_results' =
               <<estimate_costs_and_payback(mfa_tool, interventions,
                                            savings_results[1], cost_factors)>>
          /\ UNCHANGED <<pc, raised_in>>
  /\ UNCHANGED <<building_config, interventions_config, mfa_tool, interventions,
                 baseline_data, savings_results>>

Next ==
  \/ Construct
  \/ CallCalculateBaseline
  \/ \E selection \in Edits(interventions) : CallCalculateSavings(selection)
  \/ CallEstimateCostsAndPayback(CostFactors)

Spec == Init /\ [][Next]_vars

(* One run of create_streamlit_app, the script Streamlit executes anew on   *)
(* every change of a widget: the engine is constructed from the default     *)
(* configurations, the baseline is reported, create_intervention_controls   *)
(* returns the selection of the ticked measures (any of the five at once),  *)
(* and if it is not empty the savings and then the financial report are     *)
(* computed from it.                                                        *)

\* The dictionaries create_intervention_controls can return.
Selections ==
  UNION { { f \in [D -> [old : UNION {AdoptionValues(m) : m \in D},
                         new : UNION {AdoptionValues(m) : m \in D}]] :
              \A m \in D : /\ f[m].old \in AdoptionValues(m)
                           /\ f[m].new \in AdoptionValues(m) } :
          D \in SUBSET Measures }

InitDefaults ==
  /\ pc = "start"
  /\ raised_in = ""
  /\ building_config = BuildingConfig
  /\ interventions_config = InterventionConfig
  /\ mfa_tool = NoTool
  /\ interventions = <<>>
  /\ baseline_data = <<>>
  /\ savings_results = <<>>
  /\ financial_results = <<>>

\* interventions = create_intervention_controls(mfa_tool)
\* if interventions: savings_results = mfa_tool.calculate_savings(interventions)
ControlsThenSavings ==
  /\ savings_results = <<>>
  /\ pc = "ready"
  /\ \E selection \in Selections \ {<<>>} : CallCalculateSavings(selection)

\* A widget changes and Streamlit runs the script again from its first line.
Rerun ==
  /\ pc = "ready"
  /\ pc' = "start"
  /\ mfa_tool' = NoTool
  /\ interventions' = <<>>
  /\ baseline_data' = <<>>
  /\ savings_results' = <<>>
  /\ financial_results' = <<>>
  /\ UNCHANGED <<raised_in, building_config, interventions_config>>

NextDefaults ==
  \/ Construct
  \/ CallCalculateBaseline
  \/ ControlsThenSavings
  \/ CallEstimateCostsAndPayback(CostFactors)
  \/ Rerun

SpecDefaults == InitDefaults /\ [][NextDefaults]_vars

----------------------------------------------------------------------------
(* Properties of the reports.                                              *)

\* The savings report of the latest calculate_savings call has been returned.
HasSavings == savings_results # <<>>

IndividualOf(report) == report["Individual Savings (kBtu/year)"]
TotalSavingsOf(report) == report["Total Savings (kBtu/year)"]

\* Every adoption value of the selection lies in 0..100.
AdoptionsInRange(selection) ==
  \A m \in DOMAIN selection :
    selection[m].old \in 0..100 /\ selection[m].new \in 0..100

\* The report of an empty selection: nothing saved, energy use unchanged.
SavesNothing(report) ==
  /\ \A m \in Measures : QEq(IndividualOf(report)[m], QZero)
  /\ QEq(TotalSavingsOf(report), QZero)
  /\ QEq(report["New Energy Use (kBtu/year)"], building_config.total_site_energy)

\* An empty selection was passed to an engine whose total_area and
\* total_site_energy are not zero.
EmptySelectionCase ==
  /\ HasSavings
  /\ interventions = <<>>
  /\ ~QEq(building_config.total_area, QZero)
  /\ ~QEq(building_config.total_site_energy, QZero)

\* C1 as stated: for every configuration with non-zero total_area and
\* total_site_energy, an empty selection yields individual savings 0, Total
\* Savings 0 and New Energy Use equal to total_site_energy.
C1_EmptySelectionAnyConfig ==
  EmptySelectionCase => SavesNothing(savings_results[1])

\* C1 amended: the same, for configurations whose total baseline HVAC energy
\* is not negative (the 95% cap min(0, 0.95 * total_hvac) is then 0).
C1_EmptySelection ==
  (EmptySelectionCase /\ QLeq(QZero, mfa_tool.total_hvac))
    => SavesNothing(savings_results[1])

C1_Witness ==
  /\ EmptySelectionCase
  /\ QLt(QZero, mfa_tool.total_hvac)
  /\ SavesNothing(savings_results[1])

\* The sum of the four HVAC-adjacent entries of a savings dictionary.
HvacAdjacentSum(savings) ==
  QAdd(QAdd(QAdd(savings["hvac_rightsizing"], savings["humidity_control"]),
            savings["vfd"]),
       savings["window_upgrades"])

HvacCap == QMul(Q(95, 100), mfa_tool.total_hvac)

AtOrBelowLedShare(zone) ==
  QLeq(Q(interventions["led_conversion"][zone], 100),
       mfa_tool.config.current_led_percentage)

\* What one zone contributes to the LED saving when its adoption exceeds the
\* existing share.
LedContribution(lighting, zone) ==
  QMul(QMul(lighting, mfa_tool.interventions_config.led_conversion_factor),
       QSub(Q(interventions["led_conversion"][zone], 100),
            mfa_tool.config.current_led_percentage))

\* C3: the LED saving is 0 when the adoption of both zones is at most the
\* existing LED share, and a zone at or below the share contributes nothing:
\* the saving is then the other zone's contribution alone.
C3_LedClamp ==
  (HasSavings /\ "led_conversion" \in DOMAIN interventions) =>
    LET led == IndividualOf(savings_results[1])["led_conversion"]
    IN  /\ (AtOrBelowLedShare("old") /\ AtOrBelowLedShare("new"))
             => QEq(led, QZero)
        /\ (AtOrBelowLedShare("old") /\ ~AtOrBelowLedShare("new"))
             => QEq(led, LedContribution(mfa_tool.new_building_lighting, "new"))
        /\ (~AtOrBelowLedShare("old") /\ AtOrBelowLedShare("new"))
             => QEq(led, LedContribution(mfa_tool.old_building_lighting, "old"))

\* Both zones requested at exactly the existing share, lighting energy in
\* both zones, and no saving.
C3_Witness ==
  /\ HasSavings
  /\ "led_conversion" \in DOMAIN interventions
  /\ interventions["led_conversion"] = [old |-> 70, new |-> 70]
  /\ QLt(QZero, mfa_tool.old_building_lighting)
  /\ QLt(QZero, mfa_tool.new_building_lighting)
  /\ QEq(IndividualOf(savings_results[1])["led_conversion"], QZero)

\* Both configuration bundles hold their default values.
DefaultConfigs ==
  /\ building_config = BuildingConfig
  /\ interventions_config = InterventionConfig

\* The second selection is the first with the adoption of one zone of one
\* measure raised (or left as it is), everything else unchanged.
OneAdoptionRaised(before, after) ==
  /\ DOMAIN before = DOMAIN after
  /\ \E m \in DOMAIN before : \E zone \in {"old", "new"} :
       /\ after[m][zone] >= before[m][zone]
       /\ after = [before EXCEPT ![m][zone] = after[m][zone]]

\* C4: under the default configurations, raising a single adoption value and
\* keeping all others never lowers Percent Savings.
C4_PercentSavingsMonotone ==
  [][ ( /\ DefaultConfigs
        /\ HasSavings
        /\ savings_results' # <<>>
        /\ OneAdoptionRaised(interventions, interventions') )
      => QLeq(savings_results[1]["Percent Savings"],
              savings_results'[1]["Percent Savings"]) ]_vars

\* A default engine has reported on a selection with a slider at 100; such a
\* selection is only reached by raising that slider from a lower position.
C4_Witness ==
  /\ DefaultConfigs
  /\ HasSavings
  /\ \E m \in DOMAIN interventions : interventions[m].new = 100
  /\ QLt(QZero, savings_results[1]["Percent Savings"])

\* C5: Simple Payback is infinite when Annual Cost Savings is zero or
\* negative, is Implementation Cost / Annual Cost Savings otherwise, and
\* estimate_costs_and_payback raises no ZeroDivisionError.
C5_SimplePayback ==
  /\ raised_in # "estimate_costs_and_payback"
  /\ financial_results # <<>> =>
       LET annual  == financial_results[1]["Annual Cost Savings ($)"]
           cost    == financial_results[1]["Implementation Cost Estimate ($)"]
           payback == financial_results[1]["Simple Payback (years)"]
       IN  /\ QLeq(annual, QZero) => IsInf(payback)
           /\ QLt(QZero, annual) =>
                (~IsInf(payback) /\ QEq(QMul(payback, annual), cost))

\* Negative annual cost savings, reported with an infinite payback.
C5_Witness ==
  /\ financial_results # <<>>
  /\ QLt(financial_results[1]["Annual Cost Savings ($)"], QZero)
  /\ IsInf(financial_results[1]["Simple Payback (years)"])

\* One or both zones of the configured building have no area.
ZoneAreaZero ==
  \/ QEq(DerivedAreas(building_config).old_building_area, QZero)
  \/ QEq(DerivedAreas(building_config).new_building_area, QZero)

\* C6 as stated: with a zone area of zero, construction and
\* calculate_baseline raise no ZeroDivisionError, the EUI of a zone without
\* area is 0, and the EUI ratio is 0 when the old zone's EUI is 0.
C6_ZeroAreaBaseline ==
  ZoneAreaZero =>
    /\ raised_in # "calculate_energy_allocation"
    /\ baseline_data # <<>> =>
         LET old_eui == baseline_data[1]["Old Building EUI (kBtu/sq ft/year)"]
             new_eui == baseline_data[1]["New Building EUI (kBtu/sq ft/year)"]
         IN  /\ QEq(mfa_tool.old_building_area, QZero) => QEq(old_eui, QZero)
             /\ QEq(mfa_tool.new_building_area, QZero) => QEq(new_eui, QZero)
             /\ QEq(old_eui, QZero) =>
                  QEq(baseline_data[1]["EUI Ratio (New/Old)"], QZero)

\* x, rounded to two decimals, is cents/100.
RoundsTo(x, cents) == QLt(QAbs(QSub(x, Q(cents, 100))), Q(1, 200))

\* The baseline report of an engine built from the default BuildingConfig.
DefaultBaselineCase ==
  /\ building_config = BuildingConfig
  /\ baseline_data # <<>>

\* C7 as stated: the default baseline reports an old-zone exhibition area of
\* 241,214.76 sq ft and a new-zone exhibition area of 68,005.24 sq ft.
C7_AreasAsStated ==
  DefaultBaselineCase =>
    /\ RoundsTo(baseline_data[1]["Old Building Exhibition Area (sq ft)"], 24121476)
    /\ RoundsTo(baseline_data[1]["New Building Exhibition Area (sq ft)"], 6800524)

\* C7 amended: the default baseline reports an old-zone exhibition area of
\* 241,091.76 sq ft and a new-zone exhibition area of 68,000.24 sq ft, each
\* total_area x exhibition_percent x the zone's percent.
C7_Areas ==
  DefaultBaselineCase =>
    LET old_area == baseline_data[1]["Old Building Exhibition Area (sq ft)"]
        new_area == baseline_data[1]["New Building Exhibition Area (sq ft)"]
        exhibition == QMul(building_config.total_area,
                           building_config.exhibition_percent)
    IN  /\ RoundsTo(old_area, 24109176)
        /\ RoundsTo(new_area, 6800024)
        /\ QEq(old_area, QMul(exhibition, building_config.old_building_percent))
        /\ QEq(new_area, QMul(exhibition, building_config.new_building_percent))

C7_Witness ==
  /\ DefaultBaselineCase
  /\ QEq(baseline_data[1]["Old Building Exhibition Area (sq ft)"],
         Q(24109176, 100))
  /\ QEq(baseline_data[1]["New Building Exhibition Area (sq ft)"],
         Q(6800024, 100))

\* __init__ has returned an object.
Constructed == pc # "start" /\ raised_in # "calculate_energy_allocation"

C8_EngineUnchanged ==
  pc = "ready" =>
    LET fresh == NewTool(building_config, interventions_config)
    IN  /\ mfa_tool = fresh
        /\ baseline_data = <<calculate_baseline(fresh)>>
        /\ HasSavings =>
             savings_results = <<calculate_savings(fresh, interventions)>>

\* All three reports have been returned, the savings report after at least
\* one earlier calculate_savings call with another selection.
C8_Witness ==
  /\ pc = "ready"
  /\ baseline_data # <<>>
  /\ HasSavings
  /\ financial_results # <<>>
  /\ \E m \in DOMAIN interventions : interventions[m].old = 100
  /\ QLt(QZero, TotalSavingsOf(savings_results[1]))

\* The selection with measure m added at {old: 0, new: 0}.
WithMeasureAtZero(selection, m) ==
  [k \in {m} |-> [old |-> 0, new |-> 0]] @@ selection

\* Two savings reports hold the same values.
SameSavingsReport(r1, r2) ==
  /\ \A m \in Measures : QEq(IndividualOf(r1)[m], IndividualOf(r2)[m])
  /\ \A k \in DOMAIN r1 \ {"Individual Savings (kBtu/year)"} : QEq(r1[k], r2[k])

\* Two financial reports hold the same values.
SameFinancialReport(f1, f2) ==
  \A k \in DOMAIN f1 :
    /\ IsInf(f1[k]) <=> IsInf(f2[k])
    /\ ~IsInf(f1[k]) => QEq(f1[k], f2[k])

\* C9: a measure missing from the selection has individual saving 0, and the
\* savings and financial reports are those of the same selection with the
\* measure present at {old: 0, new: 0} (so it adds no implementation cost).
C9_AbsentMeasure ==
  HasSavings =>
    \A m \in Measures \ DOMAIN interventions :
      LET with_m  == WithMeasureAtZero(interventions, m)
          savings == calculate_savings(mfa_tool, with_m)
      IN  /\ QEq(IndividualOf(savings_results[1])[m], QZero)
          /\ SameSavingsReport(savings_results[1], savings)
          /\ financial_results # <<>> =>
               SameFinancialReport(
                 financial_results[1],
                 estimate_costs_and_payback(mfa_tool, with_m, savings, CostFactors))

\* Both reports returned for a selection that saves energy and lacks a measure.
C9_Witness ==
  /\ HasSavings
  /\ financial_results # <<>>
  /\ DOMAIN interventions # {}
  /\ Measures \ DOMAIN interventions # {}
  /\ QLt(QZero, TotalSavingsOf(savings_results[1]))
  /\ QLt(QZero, financial_results[1]["Implementation Cost Estimate ($)"])

\* The baseline report of an engine whose two zone areas and whose
\* exhibition energy are positive.
PositiveZonesCase ==
  /\ pc = "ready"
  /\ QLt(QZero, mfa_tool.old_building_area)
  /\ QLt(QZero, mfa_tool.new_building_area)
  /\ QLt(QZero, mfa_tool.exhibition_energy)

\* The old-zone EUI is the exhibition energy per effective square foot, the
\* new-zone EUI is that times new_building_efficiency_factor, and the
\* reported ratio is the factor.
EuiRatioIsFactor ==
  /\ QEq(baseline_data[1]["Old Building EUI (kBtu/sq ft/year)"],
         QDiv(mfa_tool.exhibition_energy,
              total_effective_area(mfa_tool.config, mfa_tool)))
  /\ QEq(baseline_data[1]["New Building EUI (kBtu/sq ft/year)"],
         QMul(baseline_data[1]["Old Building EUI (kBtu/sq ft/year)"],
              mfa_tool.config.new_building_efficiency_factor))
  /\ QEq(baseline_data[1]["EUI Ratio (New/Old)"],
         mfa_tool.config.new_building_efficiency_factor)

AccumulatedKbtu(report) ==
  QAdd(QMul(QDiv(report["Electricity Savings ($/year)"], CostFactors.elec_rate),
            CostFactors.kbtu_to_kwh),
       QMul(QDiv(report["Natural Gas Savings ($/year)"], CostFactors.gas_rate),
            CostFactors.kbtu_to_therm))

InUnitInterval(x) == QLeq(QZero, x) /\ QLeq(x, Q(1, 1))

\* Every percentage and every effectiveness factor of the engine's
\* configuration lies in [0, 1], and hvac_percent + lighting_percent <= 1.
ConfigurationInRange ==
  /\ \A f \in {"exhibition_percent", "old_building_percent", "new_building_percent",
              "hvac_percent", "lighting_percent", "other_percent",
              "current_led_percentage", "new_building_efficiency_factor",
              "fan_percent_of_hvac"} : InUnitInterval(mfa_tool.config[f])
  /\ \A f \in DOMAIN mfa_tool.interventions_config :
       InUnitInterval(mfa_tool.interventions_config[f])
  /\ QLeq(QAdd(mfa_tool.config.hvac_percent, mfa_tool.config.lighting_percent),
          Q(1, 1))

\* Total Savings and New Energy Use lie in [0, total_site_energy] and Percent
\* Savings lies in [0, 100].
SavingsWithinBaseline ==
  /\ QLeq(QZero, TotalSavingsOf(savings_results[1]))
  /\ QLeq(TotalSavingsOf(savings_results[1]), mfa_tool.config.total_site_energy)
  /\ QLeq(QZero, savings_results[1]["New Energy Use (kBtu/year)"])
  /\ QLeq(savings_results[1]["New Energy Use (kBtu/year)"],
          mfa_tool.config.total_site_energy)
  /\ QLeq(QZero, savings_results[1]["Percent Savings"])
  /\ QLeq(savings_results[1]["Percent Savings"], Q(100, 1))

\* C13 as stated: with the configuration's percentages and factors in [0, 1],
\* hvac_percent + lighting_percent <= 1 and adoptions in 0..100, Total Savings
\* and New Energy Use are in [0, total_site_energy] and Percent Savings in
\* [0, 100].
C13_WithinBaselineAsStated ==
  (HasSavings /\ ConfigurationInRange /\ AdoptionsInRange(interventions))
    => SavingsWithinBaseline

\* C13: the same for a configuration whose total_site_energy is positive.
C13_WithinBaseline ==
  (HasSavings /\ ConfigurationInRange /\ AdoptionsInRange(interventions)
     /\ QLt(QZero, mfa_tool.config.total_site_energy))
    => SavingsWithinBaseline

\* A savings report of an in-range configuration with positive site energy
\* where the raw HVAC-adjacent sum exceeds the cap and energy is saved.
C13_Witness ==
  /\ HasSavings
  /\ ConfigurationInRange
  /\ AdoptionsInRange(interventions)
  /\ QLt(QZero, mfa_tool.config.total_site_energy)
  /\ QLt(HvacCap, HvacAdjacentSum(IndividualOf(savings_results[1])))
  /\ QLt(QZero, IndividualOf(savings_results[1])["led_conversion"])
  /\ QLt(QZero, savings_results[1]["New Energy Use (kBtu/year)"])

====
